---- MODULE Spec2Model ----
(***************************************************************************)
(* Model of rascil_tweaks/functions.py: polarisation_frame_from_names and  *)
(* create_image_from_visibility.  Both are pure functions of their         *)
(* arguments; a behaviour is one call of one of them on inputs drawn by    *)
(* Init.                                                                   *)
(*                                                                         *)
(* Conventions:                                                            *)
(*  - an optional keyword argument is <<>> when absent and <<v>> when      *)
(*    given with value v;                                                  *)
(*  - a floating point quantity of the cellsize computation is a fraction  *)
(*    <<n, d>> with d >= 0; d = 0 with n > 0 is numpy's +inf (what         *)
(*    1.0 / numpy.float64(0.0) evaluates to);                              *)
(*  - Python strings are ordered by Ord, which lists the component names   *)
(*    in Python's string order.                                            *)
(***************************************************************************)
EXTENDS Integers, Sequences, FiniteSets, TLC

VARIABLES pc, vis, kwargs, names, im, frame

vars == <<pc, vis, kwargs, names, im, frame>>

-----------------------------------------------------------------------------
(* Bounds of the model *)

MaxSamples == 2

MaxNchan == 3

MaxUV == 2

MaxNames == 3

-----------------------------------------------------------------------------
(* Generic helpers *)

Range(s) == {s[i] : i \in 1..Len(s)}

SeqsUpTo(S, n) == UNION {[1..k -> S] : k \in 0..n}

SetMin(S) == CHOOSE x \in S : \A y \in S : x <= y

SetMax(S) == CHOOSE x \in S : \A y \in S : x >= y

Abs(x) == IF x < 0 THEN -x ELSE x

(* fractions: <<n, d>>, d >= 0 *)
Rat(n, d) == <<n, d>>

RatGT(a, b) == a[1] * b[2] > b[1] * a[2]

RatEq(a, b) == a[1] * b[2] = b[1] * a[2]

RatHalf(a) == IF a[2] = 0 THEN a ELSE <<a[1], 2 * a[2]>>

RatZero == <<0, 1>>

RatNeg(a) == <<-a[1], a[2]>>

-----------------------------------------------------------------------------
(* rascil.data_models.polarisation.PolarisationFrame and get_parameter      *)

polarisation_frames ==
    [ circular   |-> <<"RR", "RL", "LR", "LL">>,
      circularnp |-> <<"RR", "LL">>,
      linear     |-> <<"XX", "XY", "YX", "YY">>,
      linearnp   |-> <<"XX", "YY">>,
      stokesIQUV |-> <<"I", "Q", "U", "V">>,
      stokesIV   |-> <<"I", "V">>,
      stokesIQ   |-> <<"I", "Q">>,
      stokesI    |-> <<"I">> ]

(* iteration order of polarisation_frames.keys() *)
frame_keys ==
    <<"circular", "circularnp", "linear", "linearnp",
      "stokesIQUV", "stokesIV", "stokesIQ", "stokesI">>

PolarisationFrame(name) == [type |-> name, names |-> polarisation_frames[name]]

npol(pol_frame) == Len(pol_frame.names)

get_parameter(kw, key, default) == IF kw[key] = <<>> THEN default ELSE kw[key][1]

(* Python's order on the strings that occur *)
Ord(s) ==
    CASE s = "I"  -> 1  [] s = "LL" -> 2  [] s = "LR" -> 3  [] s = "Q"  -> 4
      [] s = "RL" -> 5  [] s = "RR" -> 6  [] s = "U"  -> 7  [] s = "V"  -> 8
      [] s = "XX" -> 9  [] s = "XY" -> 10 [] s = "YX" -> 11 [] s = "YY" -> 12
      [] OTHER -> 13

RECURSIVE Insert(_, _)
Insert(x, s) ==
    IF s = <<>> THEN <<x>>
    ELSE IF Ord(x) <= Ord(Head(s)) THEN <<x>> \o s
    ELSE <<Head(s)>> \o Insert(x, Tail(s))

RECURSIVE sorted(_)
sorted(s) == IF s = <<>> THEN <<>> ELSE Insert(Head(s), sorted(Tail(s)))

-----------------------------------------------------------------------------
(* polarisation_frame_from_names *)

NotCalled == [status |-> "none"]

Raised(err) == [status |-> "raised", error |-> err]

PolarisationNotSupported == "ValueError: Polarisation not supported"

UnknownSpectralMode == "ValueError: unknown spectral mode"

ChannelWidthZero == "AssertionError: Channel width must be non-zero for mfs mode"

Returned(pol_frame) == [status |-> "ok", frame |-> pol_frame]

(* mutant: the loop compares the lists as given, without sorting them *)
RECURSIVE frame_loop_unsorted(_, _)
frame_loop_unsorted(nm, i) ==
    IF i > Len(frame_keys) THEN Raised(PolarisationNotSupported)
    ELSE IF nm = PolarisationFrame(frame_keys[i]).names
         THEN Returned(PolarisationFrame(frame_keys[i]))
         ELSE frame_loop_unsorted(nm, i + 1)

(* mutant: the loop compares the sets of names, so duplicates are ignored *)
RECURSIVE frame_loop_sets(_, _)
frame_loop_sets(nm, i) ==
    IF i > Len(frame_keys) THEN Raised(PolarisationNotSupported)
    ELSE IF Range(nm) = Range(PolarisationFrame(frame_keys[i]).names)
         THEN Returned(PolarisationFrame(frame_keys[i]))
         ELSE frame_loop_sets(nm, i + 1)

(* the for loop of lines 54-57, from position i of the key order *)
RECURSIVE frame_loop(_, _)
frame_loop(nm, i) ==
    IF i > Len(frame_keys) THEN Raised(PolarisationNotSupported)
    ELSE IF sorted(nm) = sorted(PolarisationFrame(frame_keys[i]).names)
         THEN Returned(PolarisationFrame(frame_keys[i]))
         ELSE frame_loop(nm, i + 1)

(* nm = [kind |-> "str" | "list" | "tuple", val |-> sequence of strings];   *)
(* a str is held as the one-element sequence of itself                      *)
polarisation_frame_from_names(nm) ==
    IF nm.kind = "str" /\ nm.val[1] \in DOMAIN polarisation_frames
    THEN Returned(PolarisationFrame(nm.val[1]))
    ELSE IF nm.kind = "list" THEN frame_loop(nm.val, 1)
    ELSE Raised(PolarisationNotSupported)

-----------------------------------------------------------------------------
(* create_image_from_visibility *)

DefaultNpixel == 512

(* numpy.unique: the sorted distinct values *)
RECURSIVE SortedSeq(_)
SortedSeq(S) ==
    IF S = {} THEN <<>> ELSE <<SetMin(S)>> \o SortedSeq(S \ {SetMin(S)})

unique(s) == SortedSeq(Range(s))

(* mutant: the single-channel branch does not test the requested count *)
spectral_mode_any_single(inchan, vnchan, channel_bandwidth) ==
    IF inchan = vnchan /\ vnchan > 1 THEN "ok"
    ELSE IF inchan = 1 /\ vnchan > 1
         THEN IF Abs(channel_bandwidth) > 0 THEN "ok" ELSE ChannelWidthZero
    ELSE IF inchan > 1 /\ vnchan > 1
         THEN IF Abs(channel_bandwidth) > 0 THEN "ok" ELSE ChannelWidthZero
    ELSE IF vnchan = 1
         THEN IF Abs(channel_bandwidth) > 0 THEN "ok" ELSE ChannelWidthZero
    ELSE UnknownSpectralMode

(* mutant: the single-channel branch has lost its assert *)
spectral_mode_no_assert(inchan, vnchan, channel_bandwidth) ==
    IF inchan = vnchan /\ vnchan > 1 THEN "ok"
    ELSE IF inchan = 1 /\ vnchan > 1
         THEN IF Abs(channel_bandwidth) > 0 THEN "ok" ELSE ChannelWidthZero
    ELSE IF inchan > 1 /\ vnchan > 1
         THEN IF Abs(channel_bandwidth) > 0 THEN "ok" ELSE ChannelWidthZero
    ELSE IF inchan = 1 /\ vnchan = 1 THEN "ok"
    ELSE UnknownSpectralMode

(* which of the branches of lines 136-173 is taken, and whether its assert  *)
(* passes: "ok", or the error raised                                        *)
spectral_mode(inchan, vnchan, channel_bandwidth) ==
    IF inchan = vnchan /\ vnchan > 1 THEN "ok"
    ELSE IF inchan = 1 /\ vnchan > 1
         THEN IF Abs(channel_bandwidth) > 0 THEN "ok" ELSE ChannelWidthZero
    ELSE IF inchan > 1 /\ vnchan > 1
         THEN IF Abs(channel_bandwidth) > 0 THEN "ok" ELSE ChannelWidthZero
    ELSE IF inchan = 1 /\ vnchan = 1
         THEN IF Abs(channel_bandwidth) > 0 THEN "ok" ELSE ChannelWidthZero
    ELSE UnknownSpectralMode

(* numpy.max(numpy.abs(uvw[..., 0:2])) *)
uvmax(uvw) == SetMax({Abs(uvw[i][j]) : i \in 1..Len(uvw), j \in 1..2})

criticalcellsize(uvw) == Rat(1, uvmax(uvw) * 2)

(* mutant: the zero test moved under the override flag *)
resolve_cellsize_zero_under_flag(kw, critical) ==
    LET cellsize == get_parameter(kw, "cellsize", RatHalf(critical))
        override_cellsize == get_parameter(kw, "override_cellsize", TRUE)
    IN  IF override_cellsize /\ (RatGT(cellsize, critical) \/ RatEq(cellsize, RatZero))
        THEN critical
        ELSE cellsize

(* mutant: only a zero cellsize is reset *)
resolve_cellsize_zero_only(kw, critical) ==
    LET cellsize == get_parameter(kw, "cellsize", RatHalf(critical))
    IN  IF RatEq(cellsize, RatZero) THEN critical ELSE cellsize

(* lines 184-197 *)
resolve_cellsize(kw, critical) ==
    LET cellsize == get_parameter(kw, "cellsize", RatHalf(critical))
        override_cellsize == get_parameter(kw, "override_cellsize", TRUE)
    IN  IF (override_cellsize /\ RatGT(cellsize, critical)) \/ RatEq(cellsize, RatZero)
        THEN critical
        ELSE cellsize

(* mutant: the reference is taken from the unique values *)
reference_frequency_unique(v, kw) == unique(v.frequency)[1]

reference_frequency(v, kw) == get_parameter(kw, "frequency", v.frequency)[1]

(* mutant: the 0-relative centre *)
crpix_zero_rel(npixel) == <<npixel \div 2, npixel \div 2, 1, 1>>

crpix(npixel) == <<(npixel \div 2) + 1, (npixel \div 2) + 1, 1, 1>>

(* mutant: the axes in WCS order *)
image_shape_wcs_order(inchan, inpol, npixel) == <<npixel, npixel, inpol, inchan>>

image_shape(inchan, inpol, npixel) == <<inchan, inpol, npixel, npixel>>

create_image_from_visibility(v, kw) ==
    LET ufrequency == unique(v.frequency)
        vnchan == Len(ufrequency)
        inchan == get_parameter(kw, "nchan", vnchan)
        reffrequency == reference_frequency(v, kw)
        channel_bandwidth ==
            get_parameter(kw, "channel_bandwidth", v.channel_bandwidth[1])
        mode == spectral_mode(inchan, vnchan, channel_bandwidth)
        npixel == get_parameter(kw, "npixel", DefaultNpixel)
        cellsize == resolve_cellsize(kw, criticalcellsize(v.uvw_lambda))
        phasecentre == get_parameter(kw, "phasecentre", v.phasecentre)
        pol_frame == get_parameter(kw, "polarisation_frame",
                                   PolarisationFrame(v.polarisation_frame))
        inpol == npol(pol_frame)
        shape == image_shape(inchan, inpol, npixel)
    IN  IF mode # "ok" THEN Raised(mode)
        ELSE [ status |-> "ok",
               data |-> [shape |-> shape, fill |-> 0],
               cellsize |-> cellsize,
               wcs |-> [ crpix |-> crpix(npixel),
                         ctype |-> <<"RA---SIN", "DEC--SIN", "STOKES", "FREQ">>,
                         crval |-> <<phasecentre.ra, phasecentre.dec, 1,
                                     reffrequency>>,
                         cdelt |-> [ lon_rad |-> RatNeg(cellsize),
                                     lat_rad |-> cellsize,
                                     stokes |-> 1,
                                     freq |-> channel_bandwidth ] ],
               polarisation_frame |-> pol_frame ]

-----------------------------------------------------------------------------
(* Inputs *)

Freqs == {100, 101, 102}

FrequencyData == SeqsUpTo(Freqs, MaxSamples) \ {<<>>}

UVWData == {<< <<u, v, MaxUV + 1>> >> : u \in {-MaxUV, 0}, v \in {0, 1}}

VisSet ==
    [ phasecentre : {[ra |-> 15, dec |-> -45]},
      frequency : FrequencyData,
      channel_bandwidth : {<<0>>, <<1>>},
      uvw_lambda : UVWData,
      polarisation_frame : {"stokesI", "linear"} ]

KwargsSet ==
    [ phasecentre : {<<>>, <<[ra |-> 0, dec |-> 30]>>},
      frequency : {<<>>, << <<200, 150>> >>},
      nchan : {<<>>} \cup {<<n>> : n \in 0..MaxNchan},
      channel_bandwidth : {<<>>, <<0>>, <<-2>>},
      npixel : {<<>>, <<5>>},
      cellsize : {<<>>, <<Rat(0, 1)>>, <<Rat(1, 3)>>, <<Rat(-1, 3)>>},
      override_cellsize : {<<>>, <<TRUE>>, <<FALSE>>},
      polarisation_frame : {<<>>, <<PolarisationFrame("stokesIQ")>>} ]

DefaultVis ==
    [ phasecentre |-> [ra |-> 15, dec |-> -45],
      frequency |-> <<100>>,
      channel_bandwidth |-> <<1>>,
      uvw_lambda |-> << <<1, 1, 0>> >>,
      polarisation_frame |-> "stokesI" ]

NoKwargs ==
    [ phasecentre |-> <<>>,
      frequency |-> <<>>, nchan |-> <<>>, channel_bandwidth |-> <<>>,
      npixel |-> <<>>, cellsize |-> <<>>, override_cellsize |-> <<>>,
      polarisation_frame |-> <<>> ]

ListAlphabet == {"I", "Q", "U", "V", "XX", "ZZ"}

RECURSIVE Perms(_)
Perms(s) ==
    IF s = <<>> THEN {<<>>}
    ELSE UNION {{<<s[i]>> \o p :
                   p \in Perms([j \in 1..(Len(s) - 1) |->
                                  IF j < i THEN s[j] ELSE s[j + 1]])} :
                i \in 1..Len(s)}

FramePerms == UNION {Perms(polarisation_frames[k]) : k \in DOMAIN polarisation_frames}

NamesSet ==
    [kind : {"str"},
     val : {<<k>> : k \in DOMAIN polarisation_frames \cup {"I", "stokes", "ZZ"}}]
    \cup [kind : {"list"}, val : SeqsUpTo(ListAlphabet, MaxNames) \cup FramePerms]
    \cup [kind : {"tuple"},
          val : {polarisation_frames[k] : k \in DOMAIN polarisation_frames}]

DefaultNames == [kind |-> "str", val |-> <<"stokesI">>]

-----------------------------------------------------------------------------
(* Specification *)

Init ==
    /\ pc = "ready"
    /\ im = NotCalled
    /\ frame = NotCalled
    /\ \/ vis \in VisSet /\ kwargs \in KwargsSet /\ names = DefaultNames
       \/ vis = DefaultVis /\ kwargs = NoKwargs /\ names \in NamesSet

CallCreateImageFromVisibility ==
    /\ pc = "ready"
    /\ im' = create_image_from_visibility(vis, kwargs)
    /\ pc' = "done"
    /\ UNCHANGED <<vis, kwargs, names, frame>>

CallPolarisationFrameFromNames ==
    /\ pc = "ready"
    /\ frame' = polarisation_frame_from_names(names)
    /\ pc' = "done"
    /\ UNCHANGED <<vis, kwargs, names, im>>

Next == CallCreateImageFromVisibility \/ CallPolarisationFrameFromNames

Spec == Init /\ [][Next]_vars

TypeOK == pc \in {"ready", "done"}

-----------------------------------------------------------------------------
(* What a call was made on, as the claims name it *)

ImCalled == im.status # "none"

ImOk == im.status = "ok"

FrameCalled == frame.status # "none"

ObservedUnique == Cardinality(Range(vis.frequency))

RequestedNchan == IF kwargs.nchan = <<>> THEN ObservedUnique ELSE kwargs.nchan[1]

Bandwidth ==
    IF kwargs.channel_bandwidth = <<>> THEN vis.channel_bandwidth[1]
    ELSE kwargs.channel_bandwidth[1]

MaxAbsUV == uvmax(vis.uvw_lambda)

Critical == Rat(1, 2 * MaxAbsUV)

RequestedCellsize ==
    IF kwargs.cellsize = <<>> THEN RatHalf(Critical) ELSE kwargs.cellsize[1]

Clamp ==
    IF kwargs.override_cellsize = <<>> THEN TRUE ELSE kwargs.override_cellsize[1]

Npixel == IF kwargs.npixel = <<>> THEN DefaultNpixel ELSE kwargs.npixel[1]

Count(x, s) == Cardinality({i \in 1..Len(s) : s[i] = x})

IsPermutation(a, b) ==
    /\ Len(a) = Len(b)
    /\ \A x \in Range(a) \cup Range(b) : Count(x, a) = Count(x, b)

SpectralFailed == im.status = "raised" /\ im.error = UnknownSpectralMode

BandwidthFailed == im.status = "raised" /\ im.error = ChannelWidthZero

CoveredCase ==
    \/ RequestedNchan = ObservedUnique /\ ObservedUnique > 1
    \/ RequestedNchan = 1 /\ ObservedUnique > 1
    \/ RequestedNchan > 1 /\ ObservedUnique > 1
    \/ RequestedNchan = 1 /\ ObservedUnique = 1

-----------------------------------------------------------------------------
(* C1 as stated: with a non-zero bandwidth the call succeeds in the four    *)
(* covered cases and raises the unknown-spectral-mode error exactly when    *)
(* requested > 1 and observed = 1.  Violated: nchan = 0.                    *)
C1_AsStated ==
    (ImCalled /\ Bandwidth # 0) =>
        /\ CoveredCase => ImOk
        /\ SpectralFailed <=> (RequestedNchan > 1 /\ ObservedUnique = 1)

(* C1 amended: with a non-zero bandwidth the call succeeds in the four      *)
(* covered cases and raises the unknown-spectral-mode error exactly when    *)
(* requested > 1 and observed = 1, or requested < 1.                        *)
C1_SpectralModeTotal ==
    (ImCalled /\ Bandwidth # 0) =>
        /\ CoveredCase => ImOk
        /\ SpectralFailed <=>
              ((RequestedNchan > 1 /\ ObservedUnique = 1) \/ RequestedNchan < 1)

C1_Witness ==
    /\ ImCalled /\ Bandwidth # 0
    /\ RequestedNchan > 1 /\ ObservedUnique = 1
    /\ SpectralFailed

(* C2: a zero bandwidth raises the channel-width assertion in the modes     *)
(* single-channel-mfs, multi-channel-mfs and single-channel-native; with    *)
(* requested = observed > 1 the call succeeds for every bandwidth and the   *)
(* image has that many channels.                                            *)
C2_BandwidthZero ==
    ImCalled =>
        /\ ( /\ Bandwidth = 0
             /\ \/ RequestedNchan = 1 /\ ObservedUnique > 1
                \/ RequestedNchan > 1 /\ ObservedUnique > 1
                       /\ RequestedNchan # ObservedUnique
                \/ RequestedNchan = 1 /\ ObservedUnique = 1 )
           => BandwidthFailed
        /\ (RequestedNchan = ObservedUnique /\ ObservedUnique > 1)
           => (ImOk /\ im.data.shape[1] = ObservedUnique)

C2_Witness ==
    /\ ImCalled /\ Bandwidth = 0
    /\ RequestedNchan = 1 /\ ObservedUnique = 1
    /\ BandwidthFailed

(* C3 as stated: the requested cellsize is replaced by the critical size    *)
(* exactly when the clamp flag is true and (requested > critical or         *)
(* requested = 0), and is otherwise used unchanged.  Violated: flag false,  *)
(* requested 0.                                                             *)
C3_AsStated ==
    ImOk =>
        IF Clamp /\ (RatGT(RequestedCellsize, Critical)
                       \/ RatEq(RequestedCellsize, RatZero))
        THEN RatEq(im.cellsize, Critical)
        ELSE RatEq(im.cellsize, RequestedCellsize)

(* C3 amended: the requested cellsize is replaced by the critical size      *)
(* exactly when (the clamp flag is true and requested > critical) or        *)
(* requested = 0, whatever the flag; otherwise it is used unchanged.        *)
C3_CellsizeReplaced ==
    ImOk =>
        IF (Clamp /\ RatGT(RequestedCellsize, Critical))
              \/ RatEq(RequestedCellsize, RatZero)
        THEN RatEq(im.cellsize, Critical)
        ELSE RatEq(im.cellsize, RequestedCellsize)

C3_Witness ==
    /\ ImOk /\ ~Clamp /\ MaxAbsUV > 0
    /\ kwargs.cellsize # <<>> /\ RatEq(RequestedCellsize, RatZero)
    /\ RatEq(im.cellsize, Critical)

(* C4 as stated: a call succeeds only if the maximum |uv| is positive, and  *)
(* the cellsize of every successful call is strictly positive.  Violated:   *)
(* all u, v zero.                                                           *)
C4_AsStated ==
    ImOk => (MaxAbsUV > 0 /\ RatGT(im.cellsize, RatZero) /\ im.cellsize[2] # 0)

(* C5: with the clamp flag true the resolved cellsize is never greater than *)
(* the critical size, and with no cellsize requested it is half the         *)
(* critical size.                                                           *)
C5_ClampedBelowCritical ==
    ImOk =>
        /\ Clamp => ~RatGT(im.cellsize, Critical)
        /\ kwargs.cellsize = <<>> =>
              RatEq(Rat(2 * im.cellsize[1], im.cellsize[2]), Critical)

C5_Witness ==
    /\ ImOk /\ Clamp
    /\ kwargs.cellsize # <<>> /\ RatGT(kwargs.cellsize[1], Critical)
    /\ RatEq(im.cellsize, Critical)

(* C6: a list that is a permutation of the component names of a registry    *)
(* frame resolves to that frame.                                            *)
C6_OrderIndependent ==
    (FrameCalled /\ names.kind = "list") =>
        \A k \in DOMAIN polarisation_frames :
            IsPermutation(names.val, polarisation_frames[k]) =>
                /\ frame.status = "ok"
                /\ frame.frame.type = k
                /\ frame.frame.names = polarisation_frames[k]

C6_Witness ==
    /\ FrameCalled /\ names.kind = "list"
    /\ Len(names.val) = 4
    /\ names.val # polarisation_frames.linear
    /\ IsPermutation(names.val, polarisation_frames.linear)
    /\ frame.status = "ok" /\ frame.frame.type = "linear"

NamesMatch ==
    \/ names.kind = "str" /\ names.val[1] \in DOMAIN polarisation_frames
    \/ names.kind = "list"
         /\ \E k \in DOMAIN polarisation_frames :
                IsPermutation(names.val, polarisation_frames[k])

(* C7: an input that matches nothing (a string that is no registry key, a   *)
(* list that is no permutation of a frame's component names, or a value     *)
(* that is neither a string nor a list) raises the polarisation error and   *)
(* returns no frame.                                                        *)
C7_UnmatchedFails ==
    (FrameCalled /\ ~NamesMatch) =>
        (frame.status = "raised" /\ frame.error = PolarisationNotSupported)

C7_Witness ==
    /\ FrameCalled /\ names.kind = "list"
    /\ names.val = <<"I", "Q", "Q">>
    /\ frame.status = "raised" /\ frame.error = PolarisationNotSupported

(* C8: the reference pixel is floor(npixel / 2) + 1 on both spatial axes    *)
(* (npixel / 2 + 1 for even npixel) and 1 on the other two axes.            *)
C8_ReferencePixel ==
    ImOk =>
        LET c == im.wcs.crpix
        IN  /\ c[1] = c[2]
            /\ 2 * (c[1] - 1) <= Npixel
            /\ Npixel < 2 * (c[1] - 1) + 2
            /\ (Npixel % 2 = 0 => 2 * (c[1] - 1) = Npixel)
            /\ c[3] = 1 /\ c[4] = 1

C8_Witness ==
    /\ ImOk /\ kwargs.npixel = <<5>>
    /\ im.wcs.crpix = <<3, 3, 1, 1>>

PolCount ==
    IF kwargs.polarisation_frame = <<>>
    THEN Len(polarisation_frames[vis.polarisation_frame])
    ELSE Len(kwargs.polarisation_frame[1].names)

====
